---- MODULE Spec2Model ----
(***************************************************************************)
(* Model of two translation units of IREE:                                 *)
(*   runtime/src/iree/builtins/ukernel/mmt4d.c    (mmt4d micro-kernel)     *)
(*   runtime/src/iree/tooling/comparison.cc       (variant comparison)     *)
(*                                                                         *)
(* TLC integers are 32 bits wide, while the descriptor carries 64-bit      *)
(* fields (M, N, K, the strides) and the driver does 64-bit pointer        *)
(* arithmetic.  Such quantities are held as two-limb numbers               *)
(* [hi, lo] = hi * 2^16 + lo with 0 <= lo < 2^16, so that values such as   *)
(* 2^31 and byte offsets above 4 GiB are represented exactly.              *)
(***************************************************************************)
EXTENDS Integers, Sequences, FiniteSets, TLC

VARIABLES
  op,                \* which entry point this behaviour exercises
  pc,                \* position inside the entry point
  params,            \* iree_ukernel_mmt4d_params_t
  arch_answer,       \* what iree_ukernel_mmt4d_select_tile_func_arch answers
  generic_answer,    \* what iree_ukernel_mmt4d_select_tile_func_generic answers
  status,            \* value returned by iree_ukernel_mmt4d (valid at pc = "done")
  tile_func,         \* local tile_func of iree_ukernel_mmt4d
  generic_queried,   \* the generic provider has been consulted
  loc,               \* locals of iree_ukernel_mmt4d_using_tile_func
  calls,             \* tile_func invocations so far, in order
  out_buffer,        \* contents of out_buffer at the observed byte offsets
  msg_status,        \* argument of iree_ukernel_mmt4d_status_message
  msg_result,        \* its return value
  expected_variant,  \* arguments of iree_tooling_compare_variants
  actual_variant,
  assert_enabled,    \* build has IREE_ASSERT active (no NDEBUG)
  match_status,      \* status returned by iree_hal_buffer_view_match_equal
  bv_match,          \* the did_match it reports
  view_format,       \* how formatting of the expected / actual view proceeds
  builder,           \* iree_string_builder_t contents, as a sequence of pieces
  did_match,         \* return value of iree_tooling_compare_variants
  values_calls       \* calls of iree_tooling_compare_values: <<expected type, actual type>>

vars == <<op, pc, params, arch_answer, generic_answer, status, tile_func,
          generic_queried, loc, calls, out_buffer, msg_status, msg_result,
          expected_variant, actual_variant, assert_enabled, match_status,
          bv_match, view_format, builder, did_match, values_calls>>

mmt4dVars == <<params, arch_answer, generic_answer, status, tile_func,
               generic_queried, loc, calls, out_buffer>>
msgVars == <<msg_status, msg_result>>
cmpVars == <<expected_variant, actual_variant, assert_enabled, match_status,
             bv_match, view_format, builder, did_match, values_calls>>

(***************************************************************************)
(* Bounds of the model.                                                    *)
(***************************************************************************)
MaxGrid == 2          \* in-range M and N are drawn from 0..MaxGrid
MaxTile == 2          \* small M0, N0 are drawn from 1..MaxTile
MaxStatus == 8        \* status_message is applied to -MaxStatus..MaxStatus

(***************************************************************************)
(* Two-limb integers.                                                      *)
(***************************************************************************)
Limb == 2^16
HalfLimb == 2^15

W(n) == [hi |-> n \div Limb, lo |-> n % Limb]

WAdd(a, b) ==
  LET s == a.lo + b.lo
  IN  [hi |-> a.hi + b.hi + (s \div Limb), lo |-> s % Limb]

WNegate(a) ==
  IF a.lo = 0 THEN [hi |-> 0 - a.hi, lo |-> 0]
              ELSE [hi |-> 0 - a.hi - 1, lo |-> Limb - a.lo]

WSub(a, b) == WAdd(a, WNegate(b))

WLt(a, b) == a.hi < b.hi \/ (a.hi = b.hi /\ a.lo < b.lo)

WLe(a, b) == a = b \/ WLt(a, b)

RECURSIVE WShl(_, _)
WShl(a, k) == IF k = 0 THEN a ELSE WShl(WAdd(a, a), k - 1)

WHalf(a) == [hi |-> a.hi \div 2, lo |-> (a.lo + (a.hi % 2) * Limb) \div 2]

RECURSIVE WShr(_, _)
WShr(a, k) == IF k = 0 THEN a ELSE WShr(WHalf(a), k - 1)

RECURSIVE WMulNat(_, _)
WMulNat(a, n) == IF n <= 0 THEN W(0) ELSE WAdd(a, WMulNat(a, n - 1))

\* the value of a two-limb number that fits 32 bits
WToInt(a) == a.hi * Limb + a.lo

FitsInt32(a) == a.hi >= 0 - HalfLimb /\ a.hi < HalfLimb

\* conversion of a 64-bit value to int32_t: the low 32 bits, sign-extended
ToInt32(a) ==
  LET h == a.hi % Limb
  IN  (IF h >= HalfLimb THEN h - Limb ELSE h) * Limb + a.lo

\* conversion of a 32-bit value to int16_t: the low 16 bits, sign-extended
ToInt16(n) ==
  LET m == n % Limb
  IN  IF m >= HalfLimb THEN m - Limb ELSE m

(***************************************************************************)
(* Enumerations and constants of mmt4d.h / mmt4d_types.h.                  *)
(***************************************************************************)
iree_ukernel_mmt4d_status_ok == 0
iree_ukernel_mmt4d_status_bad_flags == 1
iree_ukernel_mmt4d_status_bad_type == 2
iree_ukernel_mmt4d_status_unsupported_huge_or_negative_dimension == 3
iree_ukernel_mmt4d_status_unsupported_generic_tile_size == 4

iree_ukernel_mmt4d_type_none == 0
iree_ukernel_mmt4d_type_f32f32f32 == 1
iree_ukernel_mmt4d_type_i8i8i32 == 2

IREE_VMVX_MATMUL_FLAG_ACCUMULATE == 1

\* flags & ~mask, for a mask of one bit
BitAndNot(flags, mask) == flags - ((flags \div mask) % 2) * mask

\* log2 of the element byte size: f32 is 4 bytes, i8 is 1 byte, i32 is 4 bytes
iree_ukernel_mmt4d_lhs_elem_size_log2(type) ==
  CASE type = iree_ukernel_mmt4d_type_f32f32f32 -> 2
    [] type = iree_ukernel_mmt4d_type_i8i8i32 -> 0
    [] OTHER -> 0

iree_ukernel_mmt4d_rhs_elem_size_log2(type) ==
  CASE type = iree_ukernel_mmt4d_type_f32f32f32 -> 2
    [] type = iree_ukernel_mmt4d_type_i8i8i32 -> 0
    [] OTHER -> 0

iree_ukernel_mmt4d_out_elem_size_log2(type) ==
  CASE type = iree_ukernel_mmt4d_type_f32f32f32 -> 2
    [] type = iree_ukernel_mmt4d_type_i8i8i32 -> 2
    [] OTHER -> 0

(***************************************************************************)
(* iree_ukernel_mmt4d_validate                                             *)
(***************************************************************************)
OUTSIDE_UINT_RANGE(value, bits) ==
  WLt(value, W(0)) \/ WShr(value, bits) # W(0)

iree_ukernel_mmt4d_validate(p) ==
  IF BitAndNot(p.flags, IREE_VMVX_MATMUL_FLAG_ACCUMULATE) # 0
    THEN iree_ukernel_mmt4d_status_bad_flags
  ELSE IF p.type \notin {iree_ukernel_mmt4d_type_f32f32f32,
                         iree_ukernel_mmt4d_type_i8i8i32}
    THEN iree_ukernel_mmt4d_status_bad_type
  ELSE IF \/ OUTSIDE_UINT_RANGE(p.M, 31) \/ OUTSIDE_UINT_RANGE(p.M, 31)
          \/ OUTSIDE_UINT_RANGE(p.K, 31) \/ OUTSIDE_UINT_RANGE(W(p.M0), 15)
          \/ OUTSIDE_UINT_RANGE(W(p.N0), 15)
          \/ OUTSIDE_UINT_RANGE(W(p.K0), 15)
    THEN iree_ukernel_mmt4d_status_unsupported_huge_or_negative_dimension
  ELSE iree_ukernel_mmt4d_status_ok

(***************************************************************************)
(* iree_ukernel_mmt4d_select_tile_func.  The two providers live outside    *)
(* this translation unit; their answers for the descriptor's tile shape    *)
(* are inputs: a tile function ("arch", "generic") or none ("null").       *)
(***************************************************************************)
iree_ukernel_mmt4d_select_tile_func_arch(answer) == answer

iree_ukernel_mmt4d_select_tile_func_generic(answer) ==
  IF answer = "null"
    THEN [status |-> iree_ukernel_mmt4d_status_unsupported_generic_tile_size,
          tile_func |-> "null"]
    ELSE [status |-> iree_ukernel_mmt4d_status_ok, tile_func |-> answer]

\* variant: the generic provider's status is dropped
select_tile_func_dropping_generic_status(arch, generic) ==
  LET arch_tile_func == iree_ukernel_mmt4d_select_tile_func_arch(arch)
  IN  IF arch_tile_func # "null"
        THEN [status |-> iree_ukernel_mmt4d_status_ok,
              tile_func |-> arch_tile_func, asked_generic |-> FALSE]
        ELSE [status |-> iree_ukernel_mmt4d_status_ok,
              tile_func |-> iree_ukernel_mmt4d_select_tile_func_generic(generic).tile_func,
              asked_generic |-> TRUE]

\* variant: the generic provider is asked first
select_tile_func_generic_first(arch, generic) ==
  LET g == iree_ukernel_mmt4d_select_tile_func_generic(generic)
  IN  IF g.status = iree_ukernel_mmt4d_status_ok
        THEN [asked_generic |-> TRUE] @@ g
        ELSE LET arch_tile_func == iree_ukernel_mmt4d_select_tile_func_arch(arch)
             IN  IF arch_tile_func # "null"
                   THEN [status |-> iree_ukernel_mmt4d_status_ok,
                         tile_func |-> arch_tile_func, asked_generic |-> TRUE]
                   ELSE [asked_generic |-> TRUE] @@ g

iree_ukernel_mmt4d_select_tile_func(arch, generic) ==
  LET arch_tile_func == iree_ukernel_mmt4d_select_tile_func_arch(arch)
  IN  IF arch_tile_func # "null"
        THEN [status |-> iree_ukernel_mmt4d_status_ok,
              tile_func |-> arch_tile_func, asked_generic |-> FALSE]
        ELSE [asked_generic |-> TRUE] @@
             iree_ukernel_mmt4d_select_tile_func_generic(generic)

(***************************************************************************)
(* Buffers.  Pointers are byte offsets from the start of their buffer.     *)
(* lhs_buffer and rhs_buffer are read-only; their element at index e is    *)
(* given by a fixed pattern (1, 2, 3, 4, 1, ... and 5, 6, 7, 8, 5, ...).   *)
(* out_buffer is held at the byte offsets in its domain, which cover every *)
(* offset a tile invocation can touch for small tiles and the first and    *)
(* last element of each tile (and the element after it) for large ones.    *)
(***************************************************************************)
lhs_buffer(e) == 1 + (e % 4)
rhs_buffer(e) == 5 + (e % 4)

\* number of elements of one output tile, as the tile function computes it
TileElems(p) == p.M0 * p.N0

\* byte footprint of one output tile, exact
TileBytes(p) ==
  WShl(W(TileElems(p)), iree_ukernel_mmt4d_out_elem_size_log2(p.type))

\* what (M0 * N0) << out_elem_size_log2 yields in the driver: the exact value
\* when it fits int32_t; otherwise the shift overflows a signed int, which is
\* undefined: the build either keeps the low 32 bits or carries the value in
\* a wider register.
OutTileSizeOutcomes(M0, N0, out_elem_size_log2) ==
  LET exact == WShl(W(M0 * N0), out_elem_size_log2)
  IN  IF FitsInt32(exact) THEN {exact} ELSE {W(ToInt32(exact)), exact}

\* the values a loop counter takes below the bound n
Iter(n) == IF n <= 0 THEN {} ELSE 0..(n - 1)

SampleOffsets(n) ==
  IF n <= 0 THEN {0}
  ELSE IF n <= (MaxTile + 1) * (MaxTile + 1) THEN 0..n
  ELSE {0, n - 1, n}

\* byte offsets of out_buffer that are observed for descriptor p
Watch(p) ==
  LET M == ToInt32(p.M)
      N == ToInt32(p.N)
      lg == iree_ukernel_mmt4d_out_elem_size_log2(p.type)
      row == WShl(p.out_stride, lg)
      sizes == OutTileSizeOutcomes(ToInt16(p.M0), ToInt16(p.N0), lg)
                 \cup {TileBytes(p)}
  IN  {WAdd(WAdd(WMulNat(row, i), WMulNat(sz, j)), WShl(W(d), lg)) :
         i \in Iter(M), j \in Iter(N), sz \in sizes,
         d \in SampleOffsets(TileElems(p))}

(***************************************************************************)
(* The tile function (external; modelled from its call contract): it       *)
(* writes the M0 x N0 elements at out_tile, element (m, n) being the sum   *)
(* over the K reduction steps and the K0 inner positions of                *)
(* lhs[k][m][k0] * rhs[k][n][k0], added to the prior contents when         *)
(* ACCUMULATE is set.                                                      *)
(***************************************************************************)
RECURSIVE Dot(_, _, _, _, _, _)
Dot(p, lhs_e, rhs_e, m, n, t) ==
  IF t <= 0 THEN 0
  ELSE LET k == (t - 1) \div p.K0
           k0 == (t - 1) % p.K0
       IN  Dot(p, lhs_e, rhs_e, m, n, t - 1)
           + lhs_buffer(lhs_e + (k * p.M0 + m) * p.K0 + k0)
             * rhs_buffer(rhs_e + (k * p.N0 + n) * p.K0 + k0)

InTile(p, a, out_tile) ==
  /\ WLe(out_tile, a)
  /\ WLt(WSub(a, out_tile), TileBytes(p))

tile_func_call(buf, out_tile, lhs_panel, rhs_panel, K, flags, p) ==
  LET lhs_e == WToInt(WShr(lhs_panel, iree_ukernel_mmt4d_lhs_elem_size_log2(p.type)))
      rhs_e == WToInt(WShr(rhs_panel, iree_ukernel_mmt4d_rhs_elem_size_log2(p.type)))
      lg == iree_ukernel_mmt4d_out_elem_size_log2(p.type)
  IN  [a \in DOMAIN buf |->
         IF InTile(p, a, out_tile)
           THEN LET idx == WToInt(WShr(WSub(a, out_tile), lg))
                    m == idx \div p.N0
                    n == idx % p.N0
                    acc == IF (flags \div IREE_VMVX_MATMUL_FLAG_ACCUMULATE) % 2 = 1
                             THEN buf[a] ELSE 0
                IN  acc + Dot(p, lhs_e, rhs_e, m, n, K * p.K0)
           ELSE buf[a]]

(***************************************************************************)
(* Descriptors the entry point is called with.                             *)
(***************************************************************************)
InUint(n, bits) == n >= 0 /\ n < 2^bits

\* strides of a densely tiled layout for the descriptor's shape (in elements):
\* a left panel holds K tiles of M0 x K0, a right panel K tiles of N0 x K0 and
\* an output row N tiles of M0 x N0 plus pad elements.  Fields outside their
\* range count as 1 here.
Dense(type, flags, M, N, K, M0, N0, K0, pad, seed) ==
  LET n == ToInt32(N)
      k == ToInt32(K)
      Nc == IF InUint(n, 3) THEN n ELSE 1
      Kc == IF InUint(k, 3) THEN k ELSE 1
      M0c == IF InUint(M0, 15) THEN M0 ELSE 1
      N0c == IF InUint(N0, 15) THEN N0 ELSE 1
      K0c == IF InUint(K0, 15) THEN K0 ELSE 1
      row == WAdd(WMulNat(W(M0c * N0c), Nc), W(pad))
  IN  [type |-> type, flags |-> flags, M |-> M, N |-> N, K |-> K,
       M0 |-> M0, N0 |-> N0, K0 |-> K0,
       lhs_stride |-> WMulNat(W(M0c * K0c), Kc),
       rhs_stride |-> WMulNat(W(N0c * K0c), Kc),
       out_stride |-> IF WLt(row, W(0)) THEN W(0) ELSE row,
       out_seed |-> seed]

Base == [type |-> iree_ukernel_mmt4d_type_f32f32f32, flags |-> 0,
         M |-> W(1), N |-> W(1), K |-> W(1), M0 |-> 1, N0 |-> 1, K0 |-> 1,
         pad |-> 0, seed |-> 0]

FromFields(f) ==
  Dense(f.type, f.flags, f.M, f.N, f.K, f.M0, f.N0, f.K0, f.pad, f.seed)

Pow31 == [hi |-> HalfLimb, lo |-> 0]          \* 2^31
Pow32Plus2 == [hi |-> Limb, lo |-> 2]         \* 2^32 + 2
Pow15 == 2^15

\* small shapes, every field in range
SmallDescriptors ==
  {Dense(type, flags, W(M), W(N), W(K), M0, N0, K0, pad, seed) :
     type \in {iree_ukernel_mmt4d_type_f32f32f32, iree_ukernel_mmt4d_type_i8i8i32},
     flags \in {0, IREE_VMVX_MATMUL_FLAG_ACCUMULATE},
     M \in 0..MaxGrid, N \in 0..MaxGrid, K \in {1, 2},
     M0 \in 1..MaxTile, N0 \in 1..MaxTile, K0 \in {1, 2},
     pad \in {0, 1}, seed \in {0, 7}}

\* one field of Base at or beyond the edge of its range
EdgeDescriptors ==
  {FromFields([Base EXCEPT !.M = v]) : v \in {W(0 - 1), Pow31, Pow32Plus2}}
  \cup {FromFields([Base EXCEPT !.N = v]) : v \in {W(0 - 1), Pow31, Pow32Plus2}}
  \cup {FromFields([Base EXCEPT !.K = v]) : v \in {W(0 - 1), Pow31, Pow32Plus2}}
  \cup {FromFields([Base EXCEPT !.M0 = v]) : v \in {0 - 1, 0, Pow15}}
  \cup {FromFields([Base EXCEPT !.N0 = v]) : v \in {0 - 1, 0, Pow15}}
  \cup {FromFields([Base EXCEPT !.K0 = v]) : v \in {0 - 1, 0, Pow15}}
  \cup {FromFields([Base EXCEPT !.flags = v]) : v \in {2, 3}}
  \cup {FromFields([Base EXCEPT !.type = v]) : v \in {iree_ukernel_mmt4d_type_none, 3}}
  \cup {FromFields([Base EXCEPT !.flags = 2, !.type = 3])}
  \cup {FromFields([Base EXCEPT !.seed = 7, !.pad = 0 - 1, !.M = W(2), !.N0 = 2])}

\* in-range shapes with tiles of up to 2^15 - 1 rows and columns
LargeDescriptors ==
  {Dense(type, flags, W(M), W(2), W(1), T, T, 1, 0, seed) :
     type \in {iree_ukernel_mmt4d_type_f32f32f32, iree_ukernel_mmt4d_type_i8i8i32},
     flags \in {0, IREE_VMVX_MATMUL_FLAG_ACCUMULATE},
     M \in {1, 2}, T \in {23170, 23171, Pow15 - 1}, seed \in {0, 7}}

Descriptors == SmallDescriptors \cup EdgeDescriptors \cup LargeDescriptors

NoLocals ==
  [M |-> 0, N |-> 0, K |-> 0, M0 |-> 0, N0 |-> 0,
   lhs_elem_size_log2 |-> 0, rhs_elem_size_log2 |-> 0, out_elem_size_log2 |-> 0,
   out_tile_row |-> W(0), lhs_panel |-> W(0), out_tile_size |-> W(0),
   lhs_panel_stride |-> W(0), rhs_panel_stride |-> W(0), out_stride |-> W(0),
   i |-> 0, j |-> 0, out_tile |-> W(0), rhs_panel |-> W(0)]

(***************************************************************************)
(* iree_ukernel_mmt4d, step by step.                                       *)
(***************************************************************************)
InitMmt4d ==
  /\ op = "mmt4d"
  /\ pc = "validate"
  /\ params \in Descriptors
  /\ arch_answer \in {"null", "arch"}
  /\ generic_answer \in {"null", "generic"}
  /\ status = iree_ukernel_mmt4d_status_ok
  /\ tile_func = "null"
  /\ generic_queried = FALSE
  /\ loc = NoLocals
  /\ calls = <<>>
  /\ out_buffer = [a \in Watch(params) |-> params.out_seed]

\* variant: the status of validation is recorded but the call goes on
Validate_without_return ==
  /\ op = "mmt4d" /\ pc = "validate"
  /\ status' = iree_ukernel_mmt4d_validate(params)
  /\ pc' = "select"
  /\ UNCHANGED <<op, params, arch_answer, generic_answer, tile_func,
                 generic_queried, loc, calls, out_buffer>>
  /\ UNCHANGED msgVars /\ UNCHANGED cmpVars

\* IREE_UKERNEL_MMT4D_RETURN_IF_ERROR(iree_ukernel_mmt4d_validate(params))
Validate ==
  /\ op = "mmt4d" /\ pc = "validate"
  /\ LET st == iree_ukernel_mmt4d_validate(params)
     IN  IF st # iree_ukernel_mmt4d_status_ok
           THEN status' = st /\ pc' = "done"
           ELSE status' = status /\ pc' = "select"
  /\ UNCHANGED <<op, params, arch_answer, generic_answer, tile_func,
                 generic_queried, loc, calls, out_buffer>>
  /\ UNCHANGED msgVars /\ UNCHANGED cmpVars

\* IREE_UKERNEL_MMT4D_RETURN_IF_ERROR(iree_ukernel_mmt4d_select_tile_func(...))
SelectTileFunc ==
  /\ op = "mmt4d" /\ pc = "select"
  /\ LET r == iree_ukernel_mmt4d_select_tile_func(arch_answer, generic_answer)
     IN  /\ generic_queried' = r.asked_generic
         /\ tile_func' = r.tile_func
         /\ IF r.status # iree_ukernel_mmt4d_status_ok
              THEN status' = r.status /\ pc' = "done"
              ELSE status' = status /\ pc' = "drive"
  /\ UNCHANGED <<op, params, arch_answer, generic_answer, loc, calls, out_buffer>>
  /\ UNCHANGED msgVars /\ UNCHANGED cmpVars

\* iree_ukernel_mmt4d_using_tile_func: the declarations before the loop nest
DriverEnter ==
  /\ op = "mmt4d" /\ pc = "drive"
  /\ LET M0 == ToInt16(params.M0)
         N0 == ToInt16(params.N0)
         lhs_lg == iree_ukernel_mmt4d_lhs_elem_size_log2(params.type)
         rhs_lg == iree_ukernel_mmt4d_rhs_elem_size_log2(params.type)
         out_lg == iree_ukernel_mmt4d_out_elem_size_log2(params.type)
     IN  \E size \in OutTileSizeOutcomes(M0, N0, out_lg) :
           loc' = [M |-> ToInt32(params.M),
                   N |-> ToInt32(params.N),
                   K |-> ToInt32(params.K),
                   M0 |-> M0,
                   N0 |-> N0,
                   lhs_elem_size_log2 |-> lhs_lg,
                   rhs_elem_size_log2 |-> rhs_lg,
                   out_elem_size_log2 |-> out_lg,
                   out_tile_row |-> W(0),
                   lhs_panel |-> W(0),
                   out_tile_size |-> size,
                   lhs_panel_stride |-> WShl(params.lhs_stride, lhs_lg),
                   rhs_panel_stride |-> WShl(params.rhs_stride, rhs_lg),
                   out_stride |-> WShl(params.out_stride, out_lg),
                   i |-> 0, j |-> 0, out_tile |-> W(0), rhs_panel |-> W(0)]
  /\ pc' = "outer"
  /\ UNCHANGED <<op, params, arch_answer, generic_answer, status, tile_func,
                 generic_queried, calls, out_buffer>>
  /\ UNCHANGED msgVars /\ UNCHANGED cmpVars

\* for (int32_t i = 0; i < M; ++i) { out_tile = ...; rhs_panel = ...; j = 0
OuterLoop ==
  /\ op = "mmt4d" /\ pc = "outer"
  /\ IF loc.i < loc.M
       THEN /\ loc' = [loc EXCEPT !.out_tile = loc.out_tile_row,
                                  !.rhs_panel = W(0),
                                  !.j = 0]
            /\ pc' = "inner"
       ELSE /\ loc' = loc
            /\ pc' = "return"
  /\ UNCHANGED <<op, params, arch_answer, generic_answer, status, tile_func,
                 generic_queried, calls, out_buffer>>
  /\ UNCHANGED msgVars /\ UNCHANGED cmpVars

\* for (int32_t j = 0; j < N; ++j) { tile_func(...); ... } and the two
\* statements that end the outer iteration
InnerLoop ==
  /\ op = "mmt4d" /\ pc = "inner"
  /\ IF loc.j < loc.N
       THEN /\ calls' = Append(calls,
                          [out_tile |-> loc.out_tile, lhs_panel |-> loc.lhs_panel,
                           rhs_panel |-> loc.rhs_panel, K |-> loc.K,
                           flags |-> params.flags, tile_func |-> tile_func,
                           i |-> loc.i, j |-> loc.j])
            /\ out_buffer' = tile_func_call(out_buffer, loc.out_tile, loc.lhs_panel,
                                            loc.rhs_panel, loc.K, params.flags, params)
            /\ loc' = [loc EXCEPT !.out_tile = WAdd(loc.out_tile, loc.out_tile_size),
                                  !.rhs_panel = WAdd(loc.rhs_panel, loc.rhs_panel_stride),
                                  !.j = loc.j + 1]
            /\ pc' = "inner"
       ELSE /\ loc' = [loc EXCEPT !.out_tile_row = WAdd(loc.out_tile_row, loc.out_stride),
                                  !.lhs_panel = WAdd(loc.lhs_panel, loc.lhs_panel_stride),
                                  !.i = loc.i + 1]
            /\ pc' = "outer"
            /\ UNCHANGED <<calls, out_buffer>>
  /\ UNCHANGED <<op, params, arch_answer, generic_answer, status, tile_func,
                 generic_queried>>
  /\ UNCHANGED msgVars /\ UNCHANGED cmpVars

\* return iree_ukernel_mmt4d_status_ok
ReturnOk ==
  /\ op = "mmt4d" /\ pc = "return"
  /\ status' = iree_ukernel_mmt4d_status_ok
  /\ pc' = "done"
  /\ UNCHANGED <<op, params, arch_answer, generic_answer, tile_func,
                 generic_queried, loc, calls, out_buffer>>
  /\ UNCHANGED msgVars /\ UNCHANGED cmpVars

(***************************************************************************)
(* iree_ukernel_mmt4d_status_message                                       *)
(***************************************************************************)
\* variant: the case of the last status is missing
status_message_missing_last_case(st) ==
  CASE st = iree_ukernel_mmt4d_status_bad_flags -> "bad mmt4d flags"
    [] st = iree_ukernel_mmt4d_status_bad_type -> "bad mmt4d type enum"
    [] st = iree_ukernel_mmt4d_status_unsupported_huge_or_negative_dimension ->
         "unsupported huge or negative size in mmt4d"
    [] OTHER -> "unknown"

iree_ukernel_mmt4d_status_message(st) ==
  CASE st = iree_ukernel_mmt4d_status_bad_flags -> "bad mmt4d flags"
    [] st = iree_ukernel_mmt4d_status_bad_type -> "bad mmt4d type enum"
    [] st = iree_ukernel_mmt4d_status_unsupported_huge_or_negative_dimension ->
         "unsupported huge or negative size in mmt4d"
    [] st = iree_ukernel_mmt4d_status_unsupported_generic_tile_size ->
         "tile size too large for the generic tile implementation"
    [] OTHER -> "unknown"

StatusMessage ==
  /\ op = "message" /\ pc = "message"
  /\ msg_result' = iree_ukernel_mmt4d_status_message(msg_status)
  /\ pc' = "done"
  /\ UNCHANGED <<op, msg_status>>
  /\ UNCHANGED mmt4dVars /\ UNCHANGED cmpVars

(***************************************************************************)
(* comparison.cc.  A variant is its type (value_type, ref_type) and its    *)
(* storage: bits is the content of the value union (read through a field   *)
(* of w bits it yields bits mod 2^w), ref the object a reference names.    *)
(* The payloads used are such that float equality is equality of bits.     *)
(***************************************************************************)
ValueTypes == {"i8", "i16", "i32", "i64", "f32", "f64"}

\* the payloads used lie below 2^31, so fields of 32 and 64 bits read them whole
ReadAs(variant, value_type) ==
  CASE value_type = "i8" -> variant.bits % (2^8)
    [] value_type = "i16" -> variant.bits % (2^16)
    [] OTHER -> variant.bits

iree_vm_variant_is_empty(v) == v.value_type = "none" /\ v.ref_type = "none"
iree_vm_variant_is_value(v) == v.value_type # "none"
iree_vm_variant_is_ref(v) == v.ref_type # "none"
iree_hal_buffer_view_isa(v) == v.ref_type = "hal.buffer_view"

iree_vm_append_variant_type_string(variant) ==
  IF iree_vm_variant_is_empty(variant) THEN "empty"
  ELSE IF iree_vm_variant_is_value(variant)
    THEN (IF variant.value_type \in ValueTypes THEN variant.value_type ELSE "?")
  ELSE IF iree_vm_variant_is_ref(variant) THEN variant.ref_type
  ELSE "unknown"

\* Text that the conversion of the format string writes for the field of
\* type value_type: %i of the signed integer for the integer types, %G of the
\* float whose bit pattern is the field for f32 and f64 (the payloads used
\* are 0 and the subnormals of patterns 1 and 257).
FormatField(variant, value_type) ==
  LET field == ReadAs(variant, value_type)
  IN  CASE value_type = "i8" ->
             ToString(IF field >= 2^7 THEN field - 2^8 ELSE field)
        [] value_type = "i16" ->
             ToString(IF field >= 2^15 THEN field - 2^16 ELSE field)
        [] value_type \in {"i32", "i64"} -> ToString(field)
        [] value_type = "f32" ->
             (CASE field = 0 -> "0"
                [] field = 1 -> "1.4013E-45"
                [] field = 257 -> "3.60134E-43")
        [] value_type = "f64" ->
             (CASE field = 0 -> "0"
                [] field = 1 -> "4.94066E-324"
                [] field = 257 -> "1.26975E-321")

\* IREE_ASSERT_EQ ends the process when assertions are compiled in and is
\* empty otherwise.  Each failure is one append_format call, hence one piece;
\* result[%d] stands for the result index, which is not modelled.
iree_tooling_compare_values(expected, actual, asserts) ==
  IF asserts /\ expected.value_type # actual.value_type
    THEN [aborted |-> TRUE, result |-> FALSE, text |-> <<>>]
  ELSE IF expected.value_type \in ValueTypes
    THEN IF ReadAs(expected, expected.value_type) # ReadAs(actual, expected.value_type)
           THEN [aborted |-> FALSE, result |-> FALSE,
                 text |-> <<"[FAILED] result[%d]: " \o expected.value_type
                            \o " values differ\n  expected: "
                            \o FormatField(expected, expected.value_type)
                            \o "\n  actual: "
                            \o FormatField(actual, expected.value_type)
                            \o "\n">>]
           ELSE [aborted |-> FALSE, result |-> TRUE, text |-> <<>>]
  ELSE [aborted |-> FALSE, result |-> FALSE,
        text |-> <<"[FAILED] result[%d]: unknown value type, cannot match\n">>]

\* iree_hal_buffer_view_format and iree_string_builder_append_inline are
\* external.  How formatting one view proceeds is given by
\*   probe  : status of the sizing call (capacity 0),
\*   inline : outcome of append_inline: "ok", "null" (ok status, no buffer
\*            handed out) or "error",
\*   fill   : status of the call that writes the text.
\* Fields that the code does not get to are fixed to "ok".
FormatBehaviours ==
  {[probe |-> "out_of_range", inline |-> "ok", fill |-> "ok"],
   [probe |-> "out_of_range", inline |-> "ok", fill |-> "error"],
   [probe |-> "out_of_range", inline |-> "null", fill |-> "ok"],
   [probe |-> "out_of_range", inline |-> "error", fill |-> "ok"],
   [probe |-> "ok", inline |-> "ok", fill |-> "ok"],
   [probe |-> "error", inline |-> "ok", fill |-> "ok"]}

\* status it returns and the pieces it appends; "<inline>" is the region
\* that append_inline adds to the builder for the formatted view
iree_tooling_append_buffer_view_string(behaviour) ==
  IF behaviour.probe # "out_of_range"
    THEN [status |-> behaviour.probe, text |-> <<>>]
  ELSE IF behaviour.inline = "error"
    THEN [status |-> "error", text |-> <<>>]
  ELSE IF behaviour.inline = "null"
    THEN [status |-> "ok", text |-> <<"<inline>">>]
  ELSE [status |-> behaviour.fill, text |-> <<"<inline>">>]

\* iree_hal_buffer_view_match_equal is external: m_status is the status it
\* returns, match the did_match it reports, "<matcher text>" what it wrote to
\* the subbuilder.  IREE_CHECK_OK ends the process on a status that is not ok.
iree_tooling_compare_buffer_views(expected, actual, m_status, match, format) ==
  LET head == <<"[FAILED] result[%d]: ", "<matcher text>", "\n  expected:\n">>
      e == iree_tooling_append_buffer_view_string(format.expected)
      a == iree_tooling_append_buffer_view_string(format.actual)
      upto_actual == head \o e.text \o <<"\n  actual:\n">>
  IN  IF m_status # "ok"
        THEN [aborted |-> TRUE, result |-> FALSE, text |-> <<>>]
      ELSE IF match
        THEN [aborted |-> FALSE, result |-> TRUE, text |-> <<>>]
      ELSE IF e.status # "ok"
        THEN [aborted |-> TRUE, result |-> FALSE, text |-> head \o e.text]
      ELSE IF a.status # "ok"
        THEN [aborted |-> TRUE, result |-> FALSE, text |-> upto_actual \o a.text]
      ELSE [aborted |-> FALSE, result |-> FALSE,
            text |-> upto_actual \o a.text \o <<"\n">>]

iree_tooling_compare_variants(expected, actual, asserts, m_status, match, format) ==
  LET mismatch ==
        [aborted |-> FALSE, result |-> FALSE, values |-> <<>>,
         text |-> <<"[FAILED] result[%d]: ", "variant types mismatch; expected ",
                    iree_vm_append_variant_type_string(expected), " but got ",
                    iree_vm_append_variant_type_string(actual), "\n">>]
      matched == [aborted |-> FALSE, result |-> TRUE, values |-> <<>>, text |-> <<>>]
  IN  IF iree_vm_variant_is_empty(expected) THEN matched
      ELSE IF iree_vm_variant_is_empty(actual) /\ iree_vm_variant_is_empty(expected)
        THEN matched
      ELSE IF iree_vm_variant_is_value(actual) /\ iree_vm_variant_is_value(expected)
        THEN IF expected.value_type # actual.value_type
               THEN [values |-> <<<<expected.value_type, actual.value_type>>>>] @@
                    iree_tooling_compare_values(expected, actual, asserts)
               ELSE mismatch
      ELSE IF iree_vm_variant_is_ref(actual) /\ iree_vm_variant_is_ref(expected)
        THEN IF iree_hal_buffer_view_isa(actual) /\ iree_hal_buffer_view_isa(expected)
               THEN [values |-> <<>>] @@
                    iree_tooling_compare_buffer_views(expected, actual, m_status,
                                                      match, format)
               ELSE mismatch
      ELSE mismatch

Payloads == {0, 1, 257}

Variants ==
  {[value_type |-> "none", ref_type |-> "none", bits |-> 0, ref |-> 0]}
  \cup {[value_type |-> t, ref_type |-> "none", bits |-> b, ref |-> 0] :
          t \in {"i8", "i32", "i64", "f32", "other"}, b \in Payloads}
  \cup {[value_type |-> "none", ref_type |-> r, bits |-> 0, ref |-> 1] :
          r \in {"hal.buffer_view", "vm.list"}}

CompareVariants ==
  /\ op = "compare" /\ pc = "compare"
  /\ LET r == iree_tooling_compare_variants(expected_variant, actual_variant,
                                            assert_enabled, match_status,
                                            bv_match, view_format)
     IN  /\ values_calls' = values_calls \o r.values
         /\ builder' = builder \o r.text
         /\ did_match' = r.result
         /\ pc' = IF r.aborted THEN "aborted" ELSE "done"
  /\ UNCHANGED <<op, expected_variant, actual_variant, assert_enabled,
                 match_status, bv_match, view_format>>
  /\ UNCHANGED mmt4dVars /\ UNCHANGED msgVars

(***************************************************************************)
(* The three entry points: each behaviour is one call of one of them.      *)
(***************************************************************************)
IdleMmt4d ==
  /\ params = FromFields(Base)
  /\ arch_answer = "null" /\ generic_answer = "null"
  /\ status = iree_ukernel_mmt4d_status_ok
  /\ tile_func = "null" /\ generic_queried = FALSE
  /\ loc = NoLocals /\ calls = <<>> /\ out_buffer = <<>>

IdleMessage == msg_status = iree_ukernel_mmt4d_status_ok /\ msg_result = ""

IdleCompare ==
  /\ expected_variant = [value_type |-> "none", ref_type |-> "none", bits |-> 0, ref |-> 0]
  /\ actual_variant = [value_type |-> "none", ref_type |-> "none", bits |-> 0, ref |-> 0]
  /\ assert_enabled = FALSE /\ match_status = "ok" /\ bv_match = FALSE
  /\ view_format = [expected |-> [probe |-> "out_of_range", inline |-> "ok", fill |-> "ok"],
                    actual |-> [probe |-> "out_of_range", inline |-> "ok", fill |-> "ok"]]
  /\ builder = <<>> /\ did_match = FALSE /\ values_calls = <<>>

InitMessage ==
  /\ op = "message" /\ pc = "message"
  /\ msg_status \in (0 - MaxStatus)..MaxStatus
  /\ msg_result = ""

InitCompare ==
  /\ op = "compare" /\ pc = "compare"
  /\ expected_variant \in Variants
  /\ actual_variant \in Variants
  /\ assert_enabled \in BOOLEAN
  /\ match_status \in {"ok", "error"}
  /\ bv_match \in BOOLEAN
  /\ view_format \in [expected : FormatBehaviours, actual : FormatBehaviours]
  /\ builder = <<>> /\ did_match = FALSE /\ values_calls = <<>>

Init ==
  \/ InitMmt4d /\ IdleMessage /\ IdleCompare
  \/ InitMessage /\ IdleMmt4d /\ IdleCompare
  \/ InitCompare /\ IdleMmt4d /\ IdleMessage

Next ==
  \/ Validate
  \/ SelectTileFunc
  \/ DriverEnter
  \/ OuterLoop
  \/ InnerLoop
  \/ ReturnOk
  \/ StatusMessage
  \/ CompareVariants

Spec == Init /\ [][Next]_vars

(***************************************************************************)
(* Vocabulary of the properties.                                           *)
(***************************************************************************)
WInRange(v, bits) == WLe(W(0), v) /\ WLt(v, WShl(W(1), bits))

FlagsDefined(p) == p.flags \in {0, IREE_VMVX_MATMUL_FLAG_ACCUMULATE}

TypeSupported(p) ==
  p.type \in {iree_ukernel_mmt4d_type_f32f32f32, iree_ukernel_mmt4d_type_i8i8i32}

DimsInRange(p) ==
  /\ WInRange(p.M, 31) /\ WInRange(p.N, 31) /\ WInRange(p.K, 31)
  /\ WInRange(W(p.M0), 15) /\ WInRange(W(p.N0), 15) /\ WInRange(W(p.K0), 15)

ValidDescriptor(p) == FlagsDefined(p) /\ TypeSupported(p) /\ DimsInRange(p)

Returned == op = "mmt4d" /\ pc = "done"

OutInitial == [a \in DOMAIN out_buffer |-> params.out_seed]

\* byte offsets the descriptor's layout assigns to tile (i, j)
OutTileAt(p, i, j) ==
  WAdd(WMulNat(WShl(p.out_stride, iree_ukernel_mmt4d_out_elem_size_log2(p.type)), i),
       WMulNat(TileBytes(p), j))
LhsPanelAt(p, i) ==
  WMulNat(WShl(p.lhs_stride, iree_ukernel_mmt4d_lhs_elem_size_log2(p.type)), i)
RhsPanelAt(p, j) ==
  WMulNat(WShl(p.rhs_stride, iree_ukernel_mmt4d_rhs_elem_size_log2(p.type)), j)

\* element (m, n) of tile (i, j) of the product of the matrices in lhs_buffer
\* and rhs_buffer, read through the descriptor's strides (in elements)
RECURSIVE ProductElem(_, _, _, _, _, _)
ProductElem(p, i, j, m, n, t) ==
  IF t = 0 THEN 0
  ELSE LET k == (t - 1) \div p.K0
           k0 == (t - 1) % p.K0
       IN  ProductElem(p, i, j, m, n, t - 1)
           + lhs_buffer(i * WToInt(p.lhs_stride) + (k * p.M0 + m) * p.K0 + k0)
             * rhs_buffer(j * WToInt(p.rhs_stride) + (k * p.N0 + n) * p.K0 + k0)

\* the rows of output tiles do not run into each other
RowsFit(p) == WLe(WMulNat(W(TileElems(p)), ToInt32(p.N)), p.out_stride)

Disjoint(a, b, len) == WLe(WAdd(a, len), b) \/ WLe(WAdd(b, len), a)

(***************************************************************************)
(* C1.  Once validation has run on a descriptor with defined flags and a   *)
(* supported type, the call has returned                                   *)
(* unsupported_huge_or_negative_dimension whenever one of M, N, K lies     *)
(* outside [0, 2^31) or one of M0, N0, K0 outside [0, 2^15).               *)
(* The code tests M twice and N never, so an out-of-range N passes.        *)
(***************************************************************************)
C1_EveryDimensionIsRangeChecked ==
  (/\ op = "mmt4d" /\ pc # "validate"
   /\ FlagsDefined(params) /\ TypeSupported(params)
   /\ ~DimsInRange(params))
  => (/\ pc = "done"
      /\ status = iree_ukernel_mmt4d_status_unsupported_huge_or_negative_dimension)

(***************************************************************************)
(* C2.  As claimed: for every descriptor within the validity bounds, run   *)
(* returns ok whatever the two providers answer.                           *)
(***************************************************************************)
C2_ValidDescriptorReturnsOk ==
  (Returned /\ ValidDescriptor(params)) => status = iree_ukernel_mmt4d_status_ok

(***************************************************************************)
(* C2, amended.  For every descriptor within the validity bounds, run      *)
(* returns ok when the architecture-specific or the generic provider       *)
(* offers a tile function, and unsupported_generic_tile_size when neither  *)
(* does.                                                                   *)
(***************************************************************************)
C2_ValidDescriptorReturnsOkUnlessNoProvider ==
  (Returned /\ ValidDescriptor(params))
  => status = (IF arch_answer # "null" \/ generic_answer # "null"
                 THEN iree_ukernel_mmt4d_status_ok
                 ELSE iree_ukernel_mmt4d_status_unsupported_generic_tile_size)

C2_Witness ==
  /\ Returned /\ ValidDescriptor(params)
  /\ arch_answer = "null" /\ generic_answer = "null"
  /\ status = iree_ukernel_mmt4d_status_unsupported_generic_tile_size

(***************************************************************************)
(* C3.  A call that returns a status other than ok has invoked the tile    *)
(* function zero times and left out_buffer as it was; and whenever a tile  *)
(* invocation has happened, validation and resolution had both succeeded   *)
(* and the call returns nothing but ok.                                    *)
(***************************************************************************)
C3_ErrorsLeaveOutputUntouched ==
  /\ (Returned /\ status # iree_ukernel_mmt4d_status_ok)
       => (calls = <<>> /\ out_buffer = OutInitial)
  /\ (op = "mmt4d" /\ calls # <<>>)
       => (/\ iree_ukernel_mmt4d_validate(params) = iree_ukernel_mmt4d_status_ok
           /\ tile_func # "null"
           /\ pc \in {"outer", "inner", "return", "done"}
           /\ (pc = "done" => status = iree_ukernel_mmt4d_status_ok))
  /\ (op = "mmt4d" /\ pc \in {"validate", "select", "drive"})
       => (calls = <<>> /\ out_buffer = OutInitial)

C3_Witness ==
  /\ Returned
  /\ status = iree_ukernel_mmt4d_status_unsupported_generic_tile_size
  /\ ToInt32(params.M) >= 1 /\ ToInt32(params.N) >= 1
  /\ DOMAIN out_buffer # {}
  /\ calls = <<>>

(***************************************************************************)
(* C4.  For a descriptor within the validity bounds, ACCUMULATE unset and  *)
(* buffers laid out by its strides (rows of output tiles not running into  *)
(* each other), out_buffer after run holds the tiled matrix product of     *)
(* lhs_buffer and rhs_buffer at every observed element, whatever it held   *)
(* before.  Tiles of 2^29 or more elements break it: the driver's byte     *)
(* footprint overflows (C9) and tiles land at the wrong offsets.           *)
(***************************************************************************)
C4_OutputIsTheTiledProduct ==
  (/\ Returned /\ status = iree_ukernel_mmt4d_status_ok
   /\ ValidDescriptor(params) /\ params.flags = 0 /\ RowsFit(params))
  => \A i \in Iter(WToInt(params.M)), j \in Iter(WToInt(params.N)) :
       \A d \in SampleOffsets(TileElems(params)) \ {TileElems(params)} :
         LET a == WAdd(OutTileAt(params, i, j),
                       WShl(W(d), iree_ukernel_mmt4d_out_elem_size_log2(params.type)))
             k == WToInt(params.K)
         IN  out_buffer[a] = ProductElem(params, i, j, d \div params.N0,
                                         d % params.N0, k * params.K0)

(***************************************************************************)
(* C5.  After resolution of a validated descriptor: if the                 *)
(* architecture-specific provider offers a tile function, that function is *)
(* the one selected, resolution succeeded and the generic provider was not *)
(* consulted; otherwise the generic provider was consulted and its answer  *)
(* is the result: its tile function, or the call has returned              *)
(* unsupported_generic_tile_size.  No other status comes from resolution.  *)
(***************************************************************************)
Resolved ==
  /\ op = "mmt4d" /\ pc \notin {"validate", "select"}
  /\ iree_ukernel_mmt4d_validate(params) = iree_ukernel_mmt4d_status_ok

C5_ArchitectureSpecificFirst ==
  Resolved =>
    /\ arch_answer # "null" =>
         (/\ tile_func = arch_answer /\ ~generic_queried
          /\ (pc = "done" => status = iree_ukernel_mmt4d_status_ok))
    /\ (arch_answer = "null" /\ generic_answer # "null") =>
         (/\ tile_func = generic_answer /\ generic_queried
          /\ (pc = "done" => status = iree_ukernel_mmt4d_status_ok))
    /\ (arch_answer = "null" /\ generic_answer = "null") =>
         (/\ generic_queried /\ pc = "done" /\ calls = <<>>
          /\ status = iree_ukernel_mmt4d_status_unsupported_generic_tile_size)

C5_Witness ==
  /\ Resolved /\ arch_answer = "arch" /\ generic_answer = "generic"
  /\ tile_func = "arch" /\ calls # <<>>

(***************************************************************************)
(* C6.  As claimed: "unknown" is the message exactly of the values that    *)
(* are none of the five defined statuses, and the four error statuses have *)
(* their four messages.                                                    *)
(***************************************************************************)
DefinedStatuses ==
  {iree_ukernel_mmt4d_status_ok,
   iree_ukernel_mmt4d_status_bad_flags,
   iree_ukernel_mmt4d_status_bad_type,
   iree_ukernel_mmt4d_status_unsupported_huge_or_negative_dimension,
   iree_ukernel_mmt4d_status_unsupported_generic_tile_size}

ErrorMessagesAsDocumented ==
  /\ msg_status = iree_ukernel_mmt4d_status_bad_flags => msg_result = "bad mmt4d flags"
  /\ msg_status = iree_ukernel_mmt4d_status_bad_type => msg_result = "bad mmt4d type enum"
  /\ msg_status = iree_ukernel_mmt4d_status_unsupported_huge_or_negative_dimension
       => msg_result = "unsupported huge or negative size in mmt4d"
  /\ msg_status = iree_ukernel_mmt4d_status_unsupported_generic_tile_size
       => msg_result = "tile size too large for the generic tile implementation"

C6_UnknownExactlyForUndefinedStatuses ==
  (op = "message" /\ pc = "done")
  => (/\ (msg_result = "unknown" <=> msg_status \notin DefinedStatuses)
      /\ ErrorMessagesAsDocumented)

(***************************************************************************)
(* C6, amended.  The four error statuses have their four messages, and     *)
(* "unknown" is the message exactly of the values that are none of the     *)
(* four error statuses: of every undefined value and of ok.                *)
(***************************************************************************)
C6_UnknownExactlyForNonErrorStatuses ==
  (op = "message" /\ pc = "done")
  => (/\ (msg_result = "unknown"
            <=> msg_status \notin (DefinedStatuses \ {iree_ukernel_mmt4d_status_ok}))
      /\ ErrorMessagesAsDocumented)

C6_Witness ==
  /\ op = "message" /\ pc = "done"
  /\ msg_status = iree_ukernel_mmt4d_status_ok
  /\ msg_result = "unknown"

(***************************************************************************)
(* C7.  For a descriptor within the validity bounds the driver has made,   *)
(* when the call returns, exactly M * N tile invocations in row-major      *)
(* order, the one for (i, j) with out_buffer + i * out_stride bytes        *)
(* + j * M0 * N0 * out_elem_bytes, the left panel of i, the right panel of *)
(* j, the full K and the descriptor's flags.  Tiles of 2^29 or more        *)
(* elements break the output pointer of every j >= 1 (C9).                 *)
(***************************************************************************)
C7_OneInvocationPerTileRowMajor ==
  (Returned /\ status = iree_ukernel_mmt4d_status_ok /\ ValidDescriptor(params))
  => LET M == WToInt(params.M)
         N == WToInt(params.N)
     IN  /\ Len(calls) = M * N
         /\ \A c \in 1..Len(calls) :
              LET i == (c - 1) \div N
                  j == (c - 1) % N
              IN  /\ calls[c].i = i /\ calls[c].j = j
                  /\ calls[c].out_tile = OutTileAt(params, i, j)
                  /\ calls[c].lhs_panel = LhsPanelAt(params, i)
                  /\ calls[c].rhs_panel = RhsPanelAt(params, j)
                  /\ calls[c].K = WToInt(params.K)
                  /\ calls[c].flags = params.flags

(***************************************************************************)
(* C8.  For a descriptor accepted by validation with M0, N0 >= 1, the      *)
(* output byte ranges [out_tile, out_tile + M0 * N0 * out_elem_bytes) of   *)
(* any two tile invocations of one run do not overlap.                     *)
(***************************************************************************)
C8_OutputTilesAreDisjoint ==
  (/\ op = "mmt4d"
   /\ iree_ukernel_mmt4d_validate(params) = iree_ukernel_mmt4d_status_ok
   /\ params.M0 >= 1 /\ params.N0 >= 1)
  => \A c \in 1..Len(calls), d \in 1..Len(calls) :
       c # d => Disjoint(calls[c].out_tile, calls[d].out_tile, TileBytes(params))

(***************************************************************************)
(* C9.  Inside the driver (so for a descriptor validate accepted), the     *)
(* narrowed locals hold the exact values: M, N, K as int32_t, M0, N0 as    *)
(* int16_t, and out_tile_size, an int32_t, the byte footprint              *)
(* M0 * N0 * out_elem_bytes.                                               *)
(***************************************************************************)
C9_NoNarrowedIntermediateWraps ==
  (op = "mmt4d" /\ pc \in {"outer", "inner", "return"})
  => (/\ W(loc.M) = params.M /\ W(loc.N) = params.N /\ W(loc.K) = params.K
      /\ loc.M0 = params.M0 /\ loc.N0 = params.N0
      /\ FitsInt32(TileBytes(params))
      /\ loc.out_tile_size = TileBytes(params))

(***************************************************************************)
(* C10.  iree_tooling_compare_variants on two primitive values (of the six *)
(* value types) returns, reporting a match with no failure text exactly    *)
(* when both have the same value type and equal payloads, and never calls  *)
(* iree_tooling_compare_values on two different value types.               *)
(***************************************************************************)
C10_PrimitivesMatchIffSameTypeAndPayload ==
  (/\ op = "compare" /\ pc # "compare"
   /\ expected_variant.value_type \in ValueTypes
   /\ actual_variant.value_type \in ValueTypes)
  => (/\ pc = "done"
      /\ (did_match /\ builder = <<>>)
           <=> (/\ expected_variant.value_type = actual_variant.value_type
                /\ ReadAs(expected_variant, expected_variant.value_type)
                     = ReadAs(actual_variant, expected_variant.value_type))
      /\ \A c \in 1..Len(values_calls) : values_calls[c][1] = values_calls[c][2])

====
